---------------------------- MODULE Spec2Model ----------------------------
(***************************************************************************)
(* p2p-clinic: the rendezvous worker and its relay room (worker source as  *)
(* recorded in TODO.md) and the peer-side SyncManager                       *)
(* (web/src/sync/SyncManager.ts) with the crypto helpers it calls.          *)
(*                                                                          *)
(* Specifications:                                                          *)
(*   SpecJoin  - the worker's invite handlers, requests interleaved at      *)
(*               their KV awaits.                                           *)
(*   SpecSync  - two managers of one room over a negotiated data channel:   *)
(*               handshake, document exchange, local writes.                *)
(*   SpecSyncFair - SpecSync with every enabled handler eventually run.     *)
(*   SpecAuth  - one manager facing a remote peer that follows no protocol. *)
(*   SpecRelay - two mutually authenticated managers whose relay            *)
(*               connections break and are re-opened.                       *)
(*   SpecLife  - a manager started and stopped by its application.          *)
(*   SpecJoinSeq - the invite handlers with redemptions handled one after   *)
(*               another, on a clock that lets the invites expire.          *)
(*   SpecGate  - the worker's rate limiter, requests interleaved at its KV  *)
(*               awaits, on a clock that lets the counter expire.           *)
(*   SpecPeers - the presence handlers /announce and /peers on a clock.     *)
(*   SpecRoom  - the relay room: connections, client frames, closes.        *)
(*   SpecGen   - the worker's and the client's generateShareCode.           *)
(*   SpecMesh  - a manager whose relay connection breaks and comes back:    *)
(*               peers lists, offers and the peer connections they make.    *)
(*   SpecValidate - the worker's routes and handlers given well-formed and  *)
(*               ill-formed room identifiers.                               *)
(***************************************************************************)
EXTENDS Integers, Sequences, FiniteSets, TLC

(***************************************************************************)
(* Bounds of the model.                                                     *)
(***************************************************************************)
\* number of HTTP requests handled by the worker in one run
MaxRequests == 3
\* number of invite-store generations (puts and expiries) per share code
MaxEpoch == 2
\* relay reconnections per endpoint (a new relay id each)
MaxReconnects == 1
\* items each manager's application writes into the document
MaxWrites == 1
\* frames the protocol-free remote peer sends
MaxAttackerFrames == 3
\* calls of start() that pass its status check, per manager
MaxStarts == 2
\* announce requests suspended at their put at one time
MaxPending == 1
\* length of a run on the server clock, in units of ClockStep seconds
MaxTicks == 15
\* frames clients send to the relay room in a run
MaxFrames == 1

(***************************************************************************)
(* Rendezvous worker: invite store and the /invite and /join handlers.      *)
(***************************************************************************)
VARIABLES
    inviteKV,       \* KV namespace, keys invite:<code> : code -> roomId or NoRecord
    inviteEpoch,    \* history: number of puts and expiries of invite:<code>
    reqs            \* the requests in flight: position, code, what KV.get read, reply

inviteVars == <<inviteKV, inviteEpoch, reqs>>

(***************************************************************************)
(* Rendezvous worker: the clock, the expiring records, the rate-limit gate, *)
(* presence, the sockets of the relay room, the share-code generator.       *)
(***************************************************************************)
VARIABLES
    now,            \* server clock (Date.now() / 1000), seconds
    inviteExp,      \* expiration of invite:<code> in the store, 0 if never put
    invitePut,      \* history: server time of the latest put of invite:<code>
    rateKV,         \* KV keys ratelimit:<ip> : ip -> [count, exp]
    gate,           \* requests at checkRateLimit: position, count read, reply
    admitLog,       \* history: requests admitted per ip and clock value
    overlapG,       \* history: two requests were at checkRateLimit at once
    peerKV,         \* KV keys room:<roomId>:peer:<peerId> -> [lastSeen, exp]
    annPending,     \* handleAnnounce calls suspended at await KV.put
    peerList,       \* history: the last reply of handleGetPeers
    sock,           \* relay room: state of each accepted server socket
    relayLog,       \* history: the last registration, close and client frame
    gen,            \* generateShareCode in progress: bytes, loop index, code
    httpReply       \* history: the request the worker turned down last, its reply

clockVars == <<now, inviteExp, invitePut>>
gateVars == <<rateKV, gate, admitLog, overlapG>>
peerVars == <<peerKV, annPending, peerList>>
roomVars == <<sock, relayLog>>
genVars == <<gen>>
httpVars == <<httpReply>>

serverVars == <<inviteVars, clockVars, gateVars, peerVars, roomVars, genVars,
               httpVars>>

(***************************************************************************)
(* SyncManager instances (one per peer) and what lies between them.         *)
(***************************************************************************)
VARIABLES
    password,           \* this.password
    authKey,            \* this.authKey (NoKey is null)
    peerConnections,    \* keys of this.peerConnections
    dataChannels,       \* keys of this.dataChannels
    authenticatedPeers, \* this.authenticatedPeers
    doc,                \* this.doc: the CRDT state, a set of items
    observers,          \* 'update' observers startYjsSync registered, per peer id
    pending,            \* message handlers suspended at an await of crypto.subtle
    dcState,            \* readyState of the RTCDataChannel kept under a peer id
    closedPcs,          \* peer ids whose RTCPeerConnection had close() called
    closeEvt,           \* a 'close' event of the data channel is due
    net,                \* frames in flight on the data channel, per direction
    atk,                \* the remote peer that follows no protocol: key, frames seen
    hist                \* history of each manager, read by the properties only

mgrVars == <<password, authKey, peerConnections, dataChannels, authenticatedPeers,
             doc, observers, pending, dcState, closedPcs, closeEvt, net, atk, hist>>

(***************************************************************************)
(* SyncManager session state, the browser's event loop, the relay room.     *)
(***************************************************************************)
VARIABLES
    status,             \* this.status
    encryptionKey,      \* this.encryptionKey
    ws,                 \* this.ws: the relay id of the socket, or NoId
    pollTimer,          \* this.pollTimer: an interval id, or 0
    announceTimer,      \* this.announceTimer: an interval id, or 0
    rt,                 \* per manager: suspended start() calls, open sockets, due
                        \* 'close' events, reconnect timeouts, live intervals
    sessions,           \* Room.sessions of the relay: the registered relay ids
    sigq                \* relay frames on their way to the socket of a relay id

sessVars == <<status, encryptionKey, ws, pollTimer, announceTimer, rt, sessions, sigq>>

vars == <<serverVars, mgrVars, sessVars>>

\* constants of the worker
SHARE_CODE_TTL == 300
PEER_TTL == 120
MAX_REQUESTS_PER_IP == 100
RATE_LIMIT_WINDOW == 60

\* Clock values are multiples of half a rate-limit window.
ClockStep == RATE_LIMIT_WINDOW \div 2
MaxClock == MaxTicks * ClockStep
Times == {t \in 0..MaxClock : t % ClockStep = 0}

\* share codes the generator can produce, room identifiers clients hold
Codes == {"ABCD-WXYZ", "EFGH-2345"}
Rooms == {"room1", "room2"}
NoRecord == "null"
ReqIds == 1..MaxRequests

NotFound404 == [status |-> 404, roomId |-> NoRecord]
Ok200(room) == [status |-> 200, roomId |-> room]
NoReply == [status |-> 0, roomId |-> NoRecord]

\* at, doneEpoch: history (clock at arrival, inviteEpoch at the reply)
IdleReq == [pc |-> "idle", code |-> NoRecord, data |-> NoRecord,
            reply |-> NoReply, epoch |-> 0, stored |-> FALSE, rivals |-> {},
            at |-> 0, doneEpoch |-> 0]

InitInvites ==
    /\ inviteKV = [c \in Codes |-> NoRecord]
    /\ inviteEpoch = [c \in Codes |-> 0]
    /\ reqs = [r \in ReqIds |-> IdleReq]
    /\ now = 0
    /\ inviteExp = [c \in Codes |-> 0]
    /\ invitePut = [c \in Codes |-> 0]

\* generateShareCode: eight random bytes mapped into the alphabet; any code of
\* the alphabet can come out, also one that is stored at the moment.
generateShareCode == Codes

\* A put that takes the TTL for milliseconds: C12 rests on the store dropping
\* the invite SHARE_CODE_TTL seconds after the put.
expirationTtlInMs(t, ttl) == t + ttl * 1000

\* KV.put(key, value, {expirationTtl}): the record expires that many seconds
\* after the put.
expirationTtl(t, ttl) == t + ttl

\* handleCreateInvite: one KV.put of invite:<code> with the TTL; no read first.
handleCreateInvite(room) ==
    \E code \in generateShareCode :
        /\ inviteEpoch[code] < MaxEpoch
        /\ inviteKV' = [inviteKV EXCEPT ![code] = room]
        /\ inviteEpoch' = [inviteEpoch EXCEPT ![code] = @ + 1]
        /\ inviteExp' = [inviteExp EXCEPT ![code] = expirationTtl(now, SHARE_CODE_TTL)]
        /\ invitePut' = [invitePut EXCEPT ![code] = now]
        /\ UNCHANGED <<reqs, now, gateVars, peerVars, roomVars, genVars, httpVars,
                       mgrVars, sessVars>>

\* The store drops invite:<code> when its expirationTtl has run out.
ExpireInvite(code) ==
    /\ inviteKV[code] # NoRecord
    /\ inviteEpoch[code] < MaxEpoch
    /\ inviteKV' = [inviteKV EXCEPT ![code] = NoRecord]
    /\ inviteEpoch' = [inviteEpoch EXCEPT ![code] = @ + 1]
    /\ UNCHANGED <<reqs, clockVars, gateVars, peerVars, roomVars, genVars, httpVars,
                   mgrVars, sessVars>>

\* fetch routes POST /join/<code> to handleJoinInvite (the request is accepted).
\* History: whether the code is stored now, and which requests for the same
\* code are being handled at this moment.
JoinArrive(r, code) ==
    /\ reqs[r].pc = "idle"
    /\ reqs' = [reqs EXCEPT ![r] =
                  [@ EXCEPT !.pc = "get", !.code = code,
                            !.epoch = inviteEpoch[code], !.at = now,
                            !.stored = (inviteKV[code] # NoRecord),
                            !.rivals = {q \in ReqIds : /\ reqs[q].pc = "get"
                                                       /\ reqs[q].code = code}]]
    /\ UNCHANGED <<inviteKV, inviteEpoch, clockVars, gateVars, peerVars, roomVars,
                   genVars, httpVars, mgrVars, sessVars>>

\* handleJoinInvite up to its second await: data = await KV.get; 404 if absent.
JoinGetStep(r) ==
    IF inviteKV[reqs[r].code] = NoRecord
    THEN [reqs[r] EXCEPT !.pc = "done", !.reply = NotFound404,
                         !.doneEpoch = inviteEpoch[reqs[r].code]]
    ELSE [reqs[r] EXCEPT !.pc = "delete", !.data = inviteKV[reqs[r].code]]

JoinGet(r) ==
    /\ reqs[r].pc = "get"
    /\ reqs' = [reqs EXCEPT ![r] = JoinGetStep(r)]
    /\ UNCHANGED <<inviteKV, inviteEpoch, clockVars, gateVars, peerVars, roomVars,
                   genVars, httpVars, mgrVars, sessVars>>

\* handleJoinInvite from its second await: await KV.delete (its outcome is not
\* looked at), then the reply with the roomId read before.
JoinDeleteReply(r) == Ok200(reqs[r].data)

\* A handler that replies without deleting: C11 rests on the delete.
JoinDeleteForgotten(r) ==
    /\ reqs[r].pc = "delete"
    /\ reqs' = [reqs EXCEPT ![r] =
                  [@ EXCEPT !.pc = "done", !.reply = JoinDeleteReply(r),
                            !.doneEpoch = inviteEpoch[reqs[r].code]]]
    /\ UNCHANGED <<inviteKV, inviteEpoch, clockVars, gateVars, peerVars, roomVars,
                   genVars, httpVars, mgrVars, sessVars>>

JoinDelete(r) ==
    /\ reqs[r].pc = "delete"
    /\ inviteKV' = [inviteKV EXCEPT ![reqs[r].code] = NoRecord]
    /\ reqs' = [reqs EXCEPT ![r] =
                  [@ EXCEPT !.pc = "done", !.reply = JoinDeleteReply(r),
                            !.doneEpoch = inviteEpoch[reqs[r].code]]]
    /\ UNCHANGED <<inviteEpoch, clockVars, gateVars, peerVars, roomVars, genVars, httpVars,
                   mgrVars, sessVars>>

(***************************************************************************)
(* Rendezvous worker: the rate-limit gate every request passes first.       *)
(***************************************************************************)
ClientIPs == {"203.0.113.7"}
NoCount == [count |-> 0, exp |-> 0]
Admitted == 200
RateLimited429 == 429

\* at, doneAt, seen: history (clock at arrival and at the reply, requests of
\* the ip admitted during the RATE_LIMIT_WINDOW seconds before the arrival)
IdleGate == [pc |-> "idle", ip |-> NoRecord, count |-> 0, limited |-> FALSE,
             reply |-> 0, at |-> 0, doneAt |-> 0, seen |-> 0]

RECURSIVE SumOver(_, _)
SumOver(f, S) ==
    IF S = {} THEN 0
    ELSE LET x == CHOOSE y \in S : TRUE IN f[x] + SumOver(f, S \ {x})

\* requests of ip admitted in the RATE_LIMIT_WINDOW seconds up to t
WindowCount(ip, t) ==
    SumOver(admitLog[ip], {u \in Times : u <= t /\ t - u < RATE_LIMIT_WINDOW})

InitGate ==
    /\ rateKV = [ip \in ClientIPs |-> NoCount]
    /\ gate = [r \in ReqIds |-> IdleGate]
    /\ admitLog = [ip \in ClientIPs |-> [t \in Times |-> 0]]
    /\ overlapG = FALSE

\* The counter values the runs start from: the client has been admitted that
\* many times, one request after another, at clock 0.
InitCounts == {0, 1, MAX_REQUESTS_PER_IP - 1, MAX_REQUESTS_PER_IP}

InitGateLoaded ==
    /\ \E c \in InitCounts :
          /\ rateKV = [ip \in ClientIPs |->
                          IF c = 0 THEN NoCount
                          ELSE [count |-> c, exp |-> expirationTtl(0, RATE_LIMIT_WINDOW)]]
          /\ admitLog = [ip \in ClientIPs |-> [t \in Times |-> IF t = 0 THEN c ELSE 0]]
    /\ gate = [r \in ReqIds |-> IdleGate]
    /\ overlapG = FALSE

\* fetch: clientIP read, checkRateLimit called, suspended at await kv.get.
GateArrive(r, ip) ==
    /\ gate[r].pc = "idle"
    /\ gate' = [gate EXCEPT ![r] = [@ EXCEPT !.pc = "get", !.ip = ip, !.at = now,
                                             !.seen = WindowCount(ip, now)]]
    /\ overlapG' = (overlapG \/ \E q \in ReqIds : gate[q].pc \in {"get", "put"})
    /\ UNCHANGED <<rateKV, admitLog, inviteVars, clockVars, peerVars, roomVars,
                   genVars, httpVars, mgrVars, sessVars>>

\* A gate that counts every request, the rejected ones too: C16 rests on the
\* limited branch returning before the put.
checkRateLimitCountsAll(count) ==
    [limited |-> count >= MAX_REQUESTS_PER_IP, put |-> TRUE]

\* checkRateLimit from the value kv.get gave: limited when the count has
\* reached MAX_REQUESTS_PER_IP, and then nothing is written.
checkRateLimitRead(count) ==
    [limited |-> count >= MAX_REQUESTS_PER_IP, put |-> count < MAX_REQUESTS_PER_IP]

\* checkRateLimit after await kv.get: a limited request is answered 429 by
\* fetch; otherwise the handler is suspended at await kv.put.
GateGet(r) ==
    LET count == rateKV[gate[r].ip].count
        res == checkRateLimitRead(count)
    IN
    /\ gate[r].pc = "get"
    /\ gate' = [gate EXCEPT ![r] =
                  IF res.put
                  THEN [@ EXCEPT !.pc = "put", !.count = count, !.limited = res.limited]
                  ELSE [@ EXCEPT !.pc = "done", !.count = count, !.doneAt = now,
                                 !.limited = res.limited,
                                 !.reply = IF res.limited THEN RateLimited429 ELSE Admitted]]
    /\ admitLog' = IF ~res.put /\ ~res.limited
                   THEN [admitLog EXCEPT ![gate[r].ip][now] = @ + 1]
                   ELSE admitLog
    /\ UNCHANGED <<rateKV, overlapG, inviteVars, clockVars, peerVars, roomVars,
                   genVars, httpVars, mgrVars, sessVars>>

\* checkRateLimit after await kv.put(key, count + 1, {expirationTtl}): the
\* request goes on to its route.
GatePut(r) ==
    /\ gate[r].pc = "put"
    /\ rateKV' = [rateKV EXCEPT ![gate[r].ip] =
                    [count |-> gate[r].count + 1,
                     exp |-> expirationTtl(now, RATE_LIMIT_WINDOW)]]
    /\ gate' = [gate EXCEPT ![r] =
                  [@ EXCEPT !.pc = "done", !.doneAt = now,
                            !.reply = IF gate[r].limited THEN RateLimited429
                                      ELSE Admitted]]
    /\ admitLog' = IF gate[r].limited THEN admitLog
                   ELSE [admitLog EXCEPT ![gate[r].ip][now] = @ + 1]
    /\ UNCHANGED <<overlapG, inviteVars, clockVars, peerVars, roomVars, genVars, httpVars,
                   mgrVars, sessVars>>

(***************************************************************************)
(* Rendezvous worker: presence (announce, peers).                           *)
(***************************************************************************)
PeerNames == {"peer-a", "peer-b"}
\* the KV key `room:${roomId}:peer:${peerId}` and the prefix handleGetPeers lists
PeerKey(room, peerId) == <<"room", room, "peer", peerId>>
PeerPrefix(room) == <<"room", room, "peer">>
PeerKeys == {PeerKey(room, peerId) : room \in Rooms, peerId \in PeerNames}
HasPrefix(key, prefix) ==
    /\ Len(key) >= Len(prefix)
    /\ SubSeq(key, 1, Len(prefix)) = prefix

\* Date.now(): milliseconds
DateNow == now * 1000

NoPeer == [peerId |-> NoRecord, lastSeen |-> 0, exp |-> 0]
NoList == [room |-> NoRecord, at |-> 0, peers |-> {}]

InitPeers ==
    /\ peerKV = [k \in PeerKeys |-> NoPeer]
    /\ annPending = {}
    /\ peerList = NoList

\* handleAnnounce up to await KV.put: the announcement carries lastSeen =
\* Date.now() of this moment.
AnnounceArrive(room, peerId) ==
    /\ Cardinality(annPending) < MaxPending
    /\ annPending' = annPending \cup
           {[key |-> PeerKey(room, peerId), peerId |-> peerId, lastSeen |-> DateNow]}
    /\ UNCHANGED <<peerKV, peerList, inviteVars, clockVars, gateVars, roomVars,
                   genVars, httpVars, mgrVars, sessVars>>

\* handleAnnounce: the put reaches the store, which keeps the record for
\* PEER_TTL seconds from then.
AnnouncePut(a) ==
    /\ a \in annPending
    /\ annPending' = annPending \ {a}
    /\ peerKV' = [peerKV EXCEPT ![a.key] =
                    [peerId |-> a.peerId, lastSeen |-> a.lastSeen,
                     exp |-> expirationTtl(now, PEER_TTL)]]
    /\ UNCHANGED <<peerList, inviteVars, clockVars, gateVars, roomVars, genVars, httpVars,
                   mgrVars, sessVars>>

\* A reply that leaves the filter out: C17 rests on it.
SeenWhenever(t, peer) == TRUE

\* handleGetPeers: only peers seen in the last PEER_TTL seconds are included.
SeenLately(t, peer) == t - peer.lastSeen < PEER_TTL * 1000

\* handleGetPeers: KV.list by prefix, KV.get of each key, the filter.
handleGetPeers(room) ==
    LET keys == {k \in PeerKeys : peerKV[k] # NoPeer /\ HasPrefix(k, PeerPrefix(room))}
        t == DateNow
    IN
    /\ peerList' = [room |-> room, at |-> t,
                    peers |-> {[key |-> k, peerId |-> peerKV[k].peerId,
                                lastSeen |-> peerKV[k].lastSeen] :
                               k \in {x \in keys : SeenLately(t, peerKV[x])}}]
    /\ UNCHANGED <<peerKV, annPending, inviteVars, clockVars, gateVars, roomVars,
                   genVars, httpVars, mgrVars, sessVars>>

(***************************************************************************)
(* The clock of the worker and the expiring store.                          *)
(***************************************************************************)
\* A record is gone from the store from its expiration on.
Expired(exp, t) == exp > 0 /\ t >= exp

\* d seconds pass: the store drops what has expired by then.
Advance(d) ==
    LET t == now + d IN
    /\ t <= MaxClock
    /\ now' = t
    /\ inviteKV' = [c \in Codes |->
                      IF Expired(inviteExp[c], t) THEN NoRecord ELSE inviteKV[c]]
    /\ inviteEpoch' = [c \in Codes |->
                         IF Expired(inviteExp[c], t) /\ inviteKV[c] # NoRecord
                         THEN inviteEpoch[c] + 1 ELSE inviteEpoch[c]]
    /\ rateKV' = [ip \in ClientIPs |->
                    IF Expired(rateKV[ip].exp, t) THEN NoCount ELSE rateKV[ip]]
    /\ peerKV' = [k \in PeerKeys |->
                    IF Expired(peerKV[k].exp, t) THEN NoPeer ELSE peerKV[k]]
    /\ UNCHANGED <<reqs, inviteExp, invitePut, gate, admitLog, overlapG, annPending, peerList,
                   roomVars, genVars, httpVars, mgrVars, sessVars>>

(***************************************************************************)
(* generateShareCode, worker and client.                                    *)
(***************************************************************************)
\* 'ABCDEFGHJKLMNPQRSTUVWXYZ23456789'
chars == <<"A", "B", "C", "D", "E", "F", "G", "H", "J", "K", "L", "M", "N", "P",
           "Q", "R", "S", "T", "U", "V", "W", "X", "Y", "Z", "2", "3", "4", "5",
           "6", "7", "8", "9">>
\* new Uint8Array(8)
CodeBytes == 8
\* values crypto.getRandomValues can put into a byte (a sample of 0..255)
ByteSamples == {0, 31, 32, 255}
NoGen == [bytes |-> <<>>, worker |-> <<>>, client |-> <<>>]

\* A generator that puts the hyphen after the fifth character: C20 rests on
\* the test i === 3.
RECURSIVE workerCodeLoopHyphenLate(_, _, _)
workerCodeLoopHyphenLate(bytes, i, code) ==
    IF i >= CodeBytes THEN code
    ELSE LET c == Append(code, chars[(bytes[i + 1] % Len(chars)) + 1])
         IN workerCodeLoopHyphenLate(bytes, i + 1, IF i = 4 THEN Append(c, "-") ELSE c)

\* worker: the loop from index i on, appended to code (i counts from 0)
RECURSIVE workerCodeLoop(_, _, _)
workerCodeLoop(bytes, i, code) ==
    IF i >= CodeBytes THEN code
    ELSE LET c == Append(code, chars[(bytes[i + 1] % Len(chars)) + 1])
         IN workerCodeLoop(bytes, i + 1, IF i = 3 THEN Append(c, "-") ELSE c)

workerGenerateShareCode(bytes) == workerCodeLoop(bytes, 0, <<>>)

\* client (web/src/store/OrgContext.tsx): its own alphabet literal and loop
clientChars == <<"A", "B", "C", "D", "E", "F", "G", "H", "J", "K", "L", "M", "N",
                 "P", "Q", "R", "S", "T", "U", "V", "W", "X", "Y", "Z", "2", "3",
                 "4", "5", "6", "7", "8", "9">>
RECURSIVE clientCodeLoop(_, _, _)
clientCodeLoop(bytes, i, code) ==
    IF i >= CodeBytes THEN code
    ELSE LET c == Append(code, clientChars[(bytes[i + 1] % Len(clientChars)) + 1])
         IN clientCodeLoop(bytes, i + 1, IF i = 3 THEN Append(c, "-") ELSE c)

clientGenerateShareCode(bytes) == clientCodeLoop(bytes, 0, <<>>)

InitGen == gen = NoGen

\* Both generators are run on the same random bytes.
GenerateBoth ==
    /\ gen = NoGen
    /\ \E bytes \in [1..CodeBytes -> ByteSamples] :
          gen' = [bytes |-> bytes, worker |-> workerGenerateShareCode(bytes),
                  client |-> clientGenerateShareCode(bytes)]
    /\ UNCHANGED <<inviteVars, clockVars, gateVars, peerVars, roomVars, httpVars,
                   mgrVars, sessVars>>

\* The codes are handed out; the next call draws new bytes.
GenReturn ==
    /\ gen # NoGen
    /\ gen' = NoGen
    /\ UNCHANGED <<inviteVars, clockVars, gateVars, peerVars, roomVars, httpVars,
                   mgrVars, sessVars>>

(***************************************************************************)
(* The worker's routes under /room/ and the checks at the head of the       *)
(* handlers. A string is the sequence of its characters.                    *)
(***************************************************************************)
HexDigits == {"0", "1", "2", "3", "4", "5", "6", "7", "8", "9",
              "a", "b", "c", "d", "e", "f", "A", "B", "C", "D", "E", "F"}

\* isValidUUID: /^[a-f0-9]{8}-[a-f0-9]{4}-[a-f0-9]{4}-[a-f0-9]{4}-[a-f0-9]{12}$/i
\* The places of the hyphens are 0-based offsets 8, 13, 18 and 23.
isValidUUID(str) ==
    /\ Len(str) = 36
    /\ \A i \in 1..Len(str) :
          IF i \in {9, 14, 19, 24} THEN str[i] = "-" ELSE str[i] \in HexDigits

\* The path patterns /^\/room\/([a-f0-9-]+)\/announce$/i and .../peers$/i:
\* the segment after /room/ is one or more hex digits or hyphens.
RouteRoomMatch(str) ==
    /\ Len(str) >= 1
    /\ \A i \in 1..Len(str) : str[i] \in HexDigits \cup {"-"}

\* The identifiers of the two rooms, and strings clients send in their place:
\* nothing, a few hex digits, a UUID without hyphens, with a hyphen out of
\* place, with a letter that is no hex digit, and a name.
RoomUUID ==
    [room1 |-> <<"5", "5", "0", "e", "8", "4", "0", "0", "-", "e", "2", "9", "b", "-", "4", "1", "d", "4", "-", "a", "7", "1", "6", "-", "4", "4", "6", "6", "5", "5", "4", "4", "0", "0", "0", "0">>,
     room2 |-> <<"6", "B", "A", "7", "B", "8", "1", "0", "-", "9", "D", "A", "D", "-", "1", "1", "D", "1", "-", "8", "0", "B", "4", "-", "0", "0", "C", "0", "4", "F", "D", "4", "3", "0", "C", "8">>]
BadRoomIds ==
    {<<>>,
     <<"a", "b", "c", "1", "2", "3">>,
     <<"5", "5", "0", "e", "8", "4", "0", "0", "e", "2", "9", "b", "4", "1", "d", "4", "a", "7", "1", "6", "4", "4", "6", "6", "5", "5", "4", "4", "0", "0", "0", "0">>,
     <<"5", "5", "0", "e", "8", "4", "0", "-", "0", "e", "2", "9", "b", "-", "4", "1", "d", "4", "-", "a", "7", "1", "6", "-", "4", "4", "6", "6", "5", "5", "4", "4", "0", "0", "0", "0">>,
     <<"5", "5", "0", "e", "8", "4", "0", "0", "-", "e", "2", "9", "b", "-", "4", "1", "d", "4", "-", "a", "7", "1", "6", "-", "4", "4", "6", "6", "5", "5", "4", "4", "0", "0", "0", "g">>,
     <<"r", "o", "o", "m", "1">>}
RoomInputs == {RoomUUID[room] : room \in Rooms} \cup BadRoomIds
NoPeerId == ""

BadRequest400 == 400
NoRoute404 == 404
NoHttpReply == [route |-> "none", roomId |-> <<>>, peerId |-> NoPeerId, status |-> 0]
InitHttp == httpReply = NoHttpReply

\* The worker answers a request without calling the store.
TurnDown(route, roomId, peerId, code) ==
    /\ httpReply' = [route |-> route, roomId |-> roomId, peerId |-> peerId,
                     status |-> code]
    /\ UNCHANGED <<inviteVars, clockVars, gateVars, peerVars, roomVars, genVars,
                   mgrVars, sessVars>>

\* POST /invite with body {roomId}: handleCreateInvite from its first line.
PostInvite(roomId) ==
    /\ httpReply = NoHttpReply
    /\ IF roomId = <<>> \/ ~isValidUUID(roomId)
       THEN TurnDown("invite", roomId, NoPeerId, BadRequest400)
       ELSE \E room \in Rooms : RoomUUID[room] = roomId /\ handleCreateInvite(room)

\* POST /room/<roomId>/announce with body {peerId}: the route, then
\* handleAnnounce up to await KV.put.
PostAnnounce(roomId, peerId) ==
    /\ httpReply = NoHttpReply
    /\ IF ~RouteRoomMatch(roomId)
       THEN TurnDown("announce", roomId, peerId, NoRoute404)
       ELSE IF ~isValidUUID(roomId) \/ peerId = NoPeerId
            THEN TurnDown("announce", roomId, peerId, BadRequest400)
            ELSE \E room \in Rooms :
                    RoomUUID[room] = roomId /\ AnnounceArrive(room, peerId)

\* GET /room/<roomId>/peers: the route, then handleGetPeers.
GetPeers(roomId) ==
    /\ httpReply = NoHttpReply
    /\ IF ~RouteRoomMatch(roomId)
       THEN TurnDown("peers", roomId, NoPeerId, NoRoute404)
       ELSE IF ~isValidUUID(roomId)
            THEN TurnDown("peers", roomId, NoPeerId, BadRequest400)
            ELSE \E room \in Rooms : RoomUUID[room] = roomId /\ handleGetPeers(room)

\* The reply has gone out.
HttpReplied ==
    /\ httpReply # NoHttpReply
    /\ httpReply' = NoHttpReply
    /\ UNCHANGED <<inviteVars, clockVars, gateVars, peerVars, roomVars, genVars,
                   mgrVars, sessVars>>

(***************************************************************************)
(* Worker state at deployment.                                              *)
(***************************************************************************)
Callbacks == {"error", "close"}
NoSock == [state |-> "none", due |-> {}, fired |-> 0]
NoFrame == [n |-> 0, sender |-> <<"null", 0>>,
            msg |-> [json |-> FALSE, type |-> "null", to |-> <<"null", 0>>,
                     from |-> <<"null", 0>>]]

InitRoom ==
    /\ sock = [s \in ({"A", "B", "P"} \X (0..MaxReconnects)) |-> NoSock]
    /\ relayLog = NoFrame

InitServer ==
    InitInvites /\ InitGate /\ InitPeers /\ InitRoom /\ InitGen /\ InitHttp

(***************************************************************************)
(* Crypto helpers (web/src/crypto, as bundled in OrgContext.tsx).           *)
(* PBKDF2 and HMAC-SHA256 are modelled as ideal functions: a key is the     *)
(* term (password, salt, usage), a signature the term (challenge, key).     *)
(***************************************************************************)
Passwords == {"correct horse", "battery staple"}
RoomId == "550e8400"
Challenges == {"c1", "c2"}
NoKey == [password |-> "null", salt |-> <<"null", "null">>, usage |-> "null"]
NoSig == [hmac |-> "null", key |-> NoKey]
NoChallenge == "null"

\* A faulty derivation that leaves the password out of the key: C5 rests on
\* deriveKey binding the key to the password.
deriveKeyWithoutPassword(pw, salt, usage) ==
    [password |-> "", salt |-> salt, usage |-> usage]

deriveKey(pw, salt, usage) == [password |-> pw, salt |-> salt, usage |-> usage]

deriveKeys(pw, orgId) ==
    [authKey |-> deriveKey(pw, <<orgId, ":auth">>, "auth"),
     encryptionKey |-> deriveKey(pw, <<orgId, ":encrypt">>, "encrypt")]

\* generateChallenge: 32 random bytes; any value can come out
generateChallenge == Challenges

signChallenge(challenge, key) == [hmac |-> challenge, key |-> key]

\* A faulty verification that recomputes the HMAC under another key than the
\* signer's: C10 rests on verifyChallenge accepting what signChallenge made.
verifyChallengeOtherKey(challenge, response, key) ==
    response = signChallenge(challenge, [key EXCEPT !.usage = "encrypt"])

verifyChallenge(challenge, response, key) == response = signChallenge(challenge, key)

(***************************************************************************)
(* SyncManager: peers, data channels, authentication and Yjs exchange.      *)
(***************************************************************************)
Mgr == {"A", "B"}
Attacker == "P"
Endpoints == Mgr \cup {Attacker}
\* A peer id is the id the relay gave a connection: (endpoint, nth connection)
Ids == Endpoints \X (0..MaxReconnects)
Id(e, n) == <<e, n>>
Ep(p) == p[1]
\* Only the data channel negotiated under an endpoint's first relay id opens.
FirstId(e) == Id(e, 0)
NoOrigin == <<"null", 0>>

Frame(t, c, r, u) == [type |-> t, challenge |-> c, response |-> r, update |-> u]
AuthChallenge(c) == Frame("auth-challenge", c, NoSig, {})
AuthResponse(c, r) == Frame("auth-response", c, r, {})
AuthSuccess == Frame("auth-success", NoChallenge, NoSig, {})
YjsSyncRequest == Frame("yjs-sync-request", NoChallenge, NoSig, {})
YjsSyncResponse(u) == Frame("yjs-sync-response", NoChallenge, NoSig, u)
YjsUpdate(u) == Frame("yjs-update", NoChallenge, NoSig, u)
YjsTypes == {"yjs-sync-request", "yjs-sync-response", "yjs-update"}

Copies(n, f) == [i \in 1..n |-> f]

NoAttacker == [key |-> NoKey, sent |-> 0, seen |-> {}]

NoHist == [sentCh |-> [p \in Ids |-> {}], acceptedCh |-> [p \in Ids |-> {}],
           verifiedOk |-> {}, gotSuccess |-> {}, rejected |-> {},
           yjsSent |-> {}, echoed |-> {}, everAuth |-> {}, evicted |-> {},
           unsolicited |-> {}, conn |-> [p \in Ids |-> 0], disc |-> {},
           secondPc |-> {}, reusedPc |-> {}]

\* A manager that has been constructed and not started, no peer in sight.
InitMgrIdle ==
    /\ password = [m \in Mgr |-> "correct horse"]
    /\ authKey = [m \in Mgr |-> NoKey]
    /\ peerConnections = [m \in Mgr |-> {}]
    /\ dataChannels = [m \in Mgr |-> {}]
    /\ authenticatedPeers = [m \in Mgr |-> {}]
    /\ doc = [m \in Mgr |-> {}]
    /\ observers = [m \in Mgr |-> [p \in Ids |-> 0]]
    /\ pending = [m \in Mgr |-> <<>>]
    /\ dcState = [m \in Mgr |-> [p \in Ids |-> "none"]]
    /\ closedPcs = [m \in Mgr |-> {}]
    /\ closeEvt = [m \in Mgr |-> {}]
    /\ net = [pr \in Endpoints \X Endpoints |-> <<>>]
    /\ hist = [m \in Mgr |-> NoHist]
    /\ atk = NoAttacker

\* dc.send(frame) on the channel kept for p: the frames queue up towards the
\* remote end. Callers check readyState (or throw) before.
NetSend(n, m, p, frames) == [n EXCEPT ![<<m, Ep(p)>>] = @ \o frames]

DcOpenFor(m, p) == dcState[m][p] = "open"

\* A faulty observer whose origin test is inverted, so that it forwards only
\* what came from p: C9 rests on the observer forwarding local writes.
ObserverSendsOnlyEchoes(m, p, auth, origin) ==
    /\ origin = p
    /\ p \in auth
    /\ dcState[m][p] = "open"

\* The observer startYjsSync registers for p, called with (update, origin):
\* it sends nothing for an update whose origin is p, nor to a peer that is not
\* authenticated or whose channel is not open.
ObserverSends(m, p, auth, origin) ==
    /\ origin # p
    /\ p \in auth
    /\ DcOpenFor(m, p)

\* doc.emit('update'): every registered observer runs once.
ObserverFrames(m, p, auth, update, origin) ==
    IF ObserverSends(m, p, auth, origin)
    THEN Copies(observers[m][p], YjsUpdate(update))
    ELSE <<>>

EmitUpdate(n, m, auth, update, origin) ==
    [pr \in DOMAIN n |->
        IF pr[1] = m /\ pr[2] # m
        THEN n[pr] \o ObserverFrames(m, FirstId(pr[2]), auth, update, origin)
        ELSE n[pr]]

\* The origin Y.applyUpdate(this.doc, update) gives the transaction: the call
\* passes no third argument.
applyUpdateOrigin(p) == NoOrigin

\* history of this.events.onPeerConnected?.(p): the calls since the last
\* onPeerDisconnected(p), counted up to two
PeerConnectedNoted(h, p) == [h EXCEPT !.conn[p] = IF @ < 2 THEN @ + 1 ELSE @]

\* history of handlePeerDisconnected: onPeerDisconnected(p) is called for a
\* peer found in authenticatedPeers, and for no other.
PeerDisconnectedNoted(h, m, p) ==
    IF p \in authenticatedPeers[m]
    THEN [h EXCEPT !.conn[p] = 0, !.disc = @ \cup {p}]
    ELSE h

\* handlePeerDisconnected
handlePeerDisconnected(m, p) ==
    /\ peerConnections' = [peerConnections EXCEPT ![m] = @ \ {p}]
    /\ dataChannels' = [dataChannels EXCEPT ![m] = @ \ {p}]
    /\ authenticatedPeers' = [authenticatedPeers EXCEPT ![m] = @ \ {p}]

\* dc.onopen -> initiateAuth: send a fresh challenge (the manager keeps no
\* copy of it; hist does).
DcOpen(m, p) ==
    /\ dcState[m][p] = "connecting"
    /\ p = FirstId(Ep(p))
    /\ dcState' = [dcState EXCEPT ![m][p] = "open"]
    /\ \E c \in generateChallenge :
          IF p \in dataChannels[m]
          THEN /\ net' = NetSend(net, m, p, <<AuthChallenge(c)>>)
               /\ hist' = [hist EXCEPT ![m].sentCh[p] = @ \cup {c}]
          ELSE UNCHANGED <<net, hist>>
    /\ UNCHANGED <<password, authKey, peerConnections, dataChannels,
                   authenticatedPeers, doc, observers, pending, closedPcs,
                   closeEvt, atk, serverVars, sessVars>>

\* startYjsSync(p) called with the channel found under p open: the request is
\* sent and one more observer is registered; without an entry in dataChannels
\* it returns at once; dc.send on a channel that is not open throws.
StartsSync(m, p, chans) == p \in chans /\ DcOpenFor(m, p)

\* Peer ids the observers of m send an update to.
YjsTargets(m, auth, origin) ==
    {p \in Ids : /\ p = FirstId(Ep(p)) /\ Ep(p) # m
                 /\ observers[m][p] > 0
                 /\ ObserverSends(m, p, auth, origin)}

Suspended(kind, p, f, m) ==
    [kind |-> kind, peer |-> p, challenge |-> f.challenge, response |-> f.response,
     key |-> authKey[m], hasDc |-> p \in dataChannels[m]]

RemoveAt(s, i) == [j \in 1..(Len(s) - 1) |-> IF j < i THEN s[j] ELSE s[j + 1]]

\* case 'auth-challenge' up to await signChallenge; case 'auth-response' up to
\* await verifyChallenge. Without authKey the frame is dropped.
RecvAuthAwait(m, p, f, kind) ==
    /\ pending' = [pending EXCEPT ![m] =
                     IF authKey[m] # NoKey THEN Append(@, Suspended(kind, p, f, m)) ELSE @]
    /\ net' = [net EXCEPT ![<<Ep(p), m>>] = Tail(@)]
    /\ UNCHANGED <<peerConnections, dataChannels, authenticatedPeers, doc,
                   observers, dcState, closedPcs, closeEvt, hist>>

\* case 'auth-success': the peer is added and startYjsSync runs.
RecvAuthSuccess(m, p) ==
    LET sync == StartsSync(m, p, dataChannels[m]) IN
    /\ authenticatedPeers' = [authenticatedPeers EXCEPT ![m] = @ \cup {p}]
    /\ observers' = [observers EXCEPT ![m][p] = IF sync THEN @ + 1 ELSE @]
    /\ net' = [NetSend(net, m, p, IF sync THEN <<YjsSyncRequest>> ELSE <<>>)
                  EXCEPT ![<<Ep(p), m>>] = Tail(@)]
    /\ hist' = [hist EXCEPT ![m] =
                  [PeerConnectedNoted(@, p) EXCEPT
                      !.gotSuccess = @ \cup {p},
                      !.everAuth = @ \cup {p},
                      !.yjsSent = IF sync THEN @ \cup {p} ELSE @]]
    /\ UNCHANGED <<peerConnections, dataChannels, doc, pending, dcState,
                   closedPcs, closeEvt>>

\* case 'yjs-update' and case 'yjs-sync-response': from an authenticated peer
\* the update is applied; Yjs emits 'update' with what was new, if anything.
RecvYjsApply(m, p, f) ==
    LET fresh == f.update \ doc[m]
        origin == applyUpdateOrigin(p)
        applied == p \in authenticatedPeers[m]
        emits == applied /\ fresh # {}
        popped == [net EXCEPT ![<<Ep(p), m>>] = Tail(@)]
        targets == IF emits THEN YjsTargets(m, authenticatedPeers[m], origin) ELSE {}
    IN
    /\ doc' = [doc EXCEPT ![m] = IF applied THEN @ \cup f.update ELSE @]
    /\ net' = IF emits
              THEN EmitUpdate(popped, m, authenticatedPeers[m], fresh, origin)
              ELSE popped
    /\ hist' = [hist EXCEPT ![m].yjsSent = @ \cup targets,
                            ![m].echoed = @ \cup (targets \cap {p})]
    /\ UNCHANGED <<peerConnections, dataChannels, authenticatedPeers, observers,
                   pending, dcState, closedPcs, closeEvt>>

\* case 'yjs-sync-request': an authenticated peer gets the full state.
RecvYjsSyncRequest(m, p) ==
    LET answers == p \in authenticatedPeers[m] /\ p \in dataChannels[m] IN
    /\ net' = [NetSend(net, m, p, IF answers THEN <<YjsSyncResponse(doc[m])>> ELSE <<>>)
                  EXCEPT ![<<Ep(p), m>>] = Tail(@)]
    /\ hist' = [hist EXCEPT ![m].yjsSent = IF answers THEN @ \cup {p} ELSE @]
    /\ UNCHANGED <<peerConnections, dataChannels, authenticatedPeers, doc,
                   observers, pending, dcState, closedPcs, closeEvt>>

\* dc.onmessage -> handleDataChannelMessage(peerId, frame), to its first await.
\* A frame of any other type falls through the switch.
Recv(m, e) ==
    LET p == FirstId(e)
        f == Head(net[<<e, m>>])
    IN
    /\ e # m
    /\ DcOpenFor(m, p)
    /\ net[<<e, m>>] # <<>>
    /\ CASE f.type = "auth-challenge" -> RecvAuthAwait(m, p, f, "sign")
         [] f.type = "auth-response" -> RecvAuthAwait(m, p, f, "verify")
         [] f.type = "auth-success" -> RecvAuthSuccess(m, p)
         [] f.type \in {"yjs-update", "yjs-sync-response"} -> RecvYjsApply(m, p, f)
         [] f.type = "yjs-sync-request" -> RecvYjsSyncRequest(m, p)
         [] OTHER ->
              /\ net' = [net EXCEPT ![<<e, m>>] = Tail(@)]
              /\ UNCHANGED <<peerConnections, dataChannels, authenticatedPeers, doc,
                             observers, pending, dcState, closedPcs, closeEvt, hist>>
    /\ UNCHANGED <<password, authKey, atk, serverVars, sessVars>>

\* case 'auth-challenge' after await signChallenge: the response goes out on
\* the channel found when the frame arrived.
SignDone(m, i) ==
    LET h == pending[m][i]
        sends == h.hasDc /\ DcOpenFor(m, h.peer)
    IN
    /\ i \in 1..Len(pending[m])
    /\ h.kind = "sign"
    /\ pending' = [pending EXCEPT ![m] = RemoveAt(@, i)]
    /\ net' = NetSend(net, m, h.peer,
                 IF sends
                 THEN <<AuthResponse(h.challenge, signChallenge(h.challenge, h.key))>>
                 ELSE <<>>)
    /\ UNCHANGED <<password, authKey, peerConnections, dataChannels,
                   authenticatedPeers, doc, observers, dcState, closedPcs,
                   closeEvt, hist, atk, serverVars, sessVars>>

\* history: the response names a challenge this manager did not send the peer
Unsolicited(m, h) == IF h.challenge \in hist[m].sentCh[h.peer] THEN {} ELSE {h.peer}

\* case 'auth-response' after await verifyChallenge, the response verified:
\* the peer is added, auth-success goes out on the channel found when the frame
\* arrived (dc.send throws when that channel is no longer open, which ends the
\* handler), then startYjsSync runs.
VerifyAccept(m, h) ==
    LET p == h.peer
        thrown == h.hasDc /\ ~DcOpenFor(m, p)
        sync == ~thrown /\ StartsSync(m, p, dataChannels[m])
    IN
    /\ authenticatedPeers' = [authenticatedPeers EXCEPT ![m] = @ \cup {p}]
    /\ observers' = [observers EXCEPT ![m][p] = IF sync THEN @ + 1 ELSE @]
    /\ net' = NetSend(net, m, p,
                 (IF h.hasDc /\ ~thrown THEN <<AuthSuccess>> ELSE <<>>)
                 \o (IF sync THEN <<YjsSyncRequest>> ELSE <<>>))
    /\ hist' = [hist EXCEPT ![m] =
                  [PeerConnectedNoted(@, p) EXCEPT
                      !.verifiedOk = @ \cup {p},
                      !.acceptedCh[p] = @ \cup {h.challenge},
                      !.unsolicited = @ \cup Unsolicited(m, h),
                      !.everAuth = @ \cup {p},
                      !.yjsSent = IF sync THEN @ \cup {p} ELSE @]]
    /\ UNCHANGED <<peerConnections, dataChannels, dcState, closedPcs, closeEvt>>

\* pc.close(): the channel of that connection is closed at this end at once;
\* the other end gets its 'close' event later, this end may get one or not.
PcCloseSet(m, ps) ==
    /\ closedPcs' = [closedPcs EXCEPT ![m] = @ \cup ps]
    /\ dcState' = [dcState EXCEPT ![m] =
                     [p \in Ids |-> IF p \in ps /\ @[p] # "none" THEN "closed" ELSE @[p]]]
    /\ closeEvt' = [x \in Mgr |->
                      IF x = m
                      THEN closeEvt[x] \cup {p \in ps : dcState[m][p] # "none"}
                      ELSE IF /\ FirstId(x) \in ps
                              /\ dcState[x][FirstId(m)] \in {"connecting", "open"}
                           THEN closeEvt[x] \cup {FirstId(m)}
                           ELSE closeEvt[x]]

PcClose(m, p) == PcCloseSet(m, {p})

\* case 'auth-response' after await verifyChallenge, the response did not
\* verify: this.peerConnections.get(peerId)?.close()
VerifyReject(m, h) ==
    /\ IF h.peer \in peerConnections[m]
       THEN PcClose(m, h.peer)
       ELSE UNCHANGED <<closedPcs, dcState, closeEvt>>
    /\ hist' = [hist EXCEPT ![m].rejected = @ \cup {h.peer},
                            ![m].unsolicited = @ \cup Unsolicited(m, h)]
    /\ UNCHANGED <<peerConnections, dataChannels, authenticatedPeers, observers, net>>

VerifyDone(m, i) ==
    LET h == pending[m][i] IN
    /\ i \in 1..Len(pending[m])
    /\ h.kind = "verify"
    /\ pending' = [pending EXCEPT ![m] = RemoveAt(@, i)]
    /\ IF verifyChallenge(h.challenge, h.response, h.key)
       THEN VerifyAccept(m, h)
       ELSE VerifyReject(m, h)
    /\ UNCHANGED <<password, authKey, doc, atk, serverVars, sessVars>>

\* dc.onclose -> handlePeerDisconnected
DcCloseEvent(m, p) ==
    /\ p \in closeEvt[m]
    /\ closeEvt' = [closeEvt EXCEPT ![m] = @ \ {p}]
    /\ dcState' = [dcState EXCEPT ![m][p] = "closed"]
    /\ handlePeerDisconnected(m, p)
    /\ hist' = [hist EXCEPT ![m] = PeerDisconnectedNoted(@, m, p)]
    /\ UNCHANGED <<password, authKey, doc, observers, pending, closedPcs, net,
                   atk, serverVars, sessVars>>

\* The application writes an item into the document (contactsMap.set, ...):
\* a local transaction, whose origin is no peer id.
Items(m) == {<<m, i>> : i \in 1..MaxWrites}

LocalWrite(m) ==
    LET item == <<m, Cardinality(doc[m] \cap Items(m)) + 1>>
        targets == YjsTargets(m, authenticatedPeers[m], NoOrigin)
    IN
    /\ item \in Items(m)
    /\ doc' = [doc EXCEPT ![m] = @ \cup {item}]
    /\ net' = EmitUpdate(net, m, authenticatedPeers[m], {item}, NoOrigin)
    /\ hist' = [hist EXCEPT ![m].yjsSent = @ \cup targets]
    /\ UNCHANGED <<password, authKey, peerConnections, dataChannels,
                   authenticatedPeers, observers, pending, dcState, closedPcs,
                   closeEvt, atk, serverVars, sessVars>>

(***************************************************************************)
(* The relay room (Room durable object of the worker).                      *)
(***************************************************************************)
NoId == <<"null", 0>>
SigFrame(t, ps, p, from) == [type |-> t, peers |-> ps, peerId |-> p, from |-> from]

Broadcast(q, targets, f) == [x \in DOMAIN q |-> IF x \in targets THEN Append(q[x], f) ELSE q[x]]

\* Room.fetch: the connection gets relay id s, is told the others, and the
\* others are told of it.
RoomFetch(q, s) ==
    [Broadcast(q, sessions \ {s}, SigFrame("peer-joined", {}, s, NoId))
        EXCEPT ![s] = Append(@, SigFrame("peers", sessions \ {s}, s, NoId))]

\* A close handler that broadcasts whether or not the socket is still a
\* session: C19 rests on getPeerId finding nothing the second time.
RoomCloseUnchecked(q, s) ==
    [Broadcast(q, sessions \ {s}, SigFrame("peer-left", {}, s, NoId)) EXCEPT ![s] = <<>>]

\* Room.webSocketClose: the session is dropped, the others get peer-left.
\* Nothing more reaches the closed socket.
RoomClose(q, s) ==
    IF s \in sessions
    THEN [Broadcast(q, sessions \ {s}, SigFrame("peer-left", {}, s, NoId)) EXCEPT ![s] = <<>>]
    ELSE [q EXCEPT ![s] = <<>>]

\* Room.webSocketMessage: a frame with a `to` naming a session goes there, with
\* `from` set to the sender's relay id.
RoomMessage(q, from, to, t) ==
    IF to \in sessions /\ from \in sessions
    THEN [q EXCEPT ![to] = Append(@, SigFrame(t, {}, NoId, from))]
    ELSE q

\* Room.getPeerId: the id under which the socket is registered, if any.
getPeerId(socket) == IF socket \in sessions THEN socket ELSE NoId

\* The frame the room sends on: {...data, from: fromId}
Relayed(msg, fromId) == [type |-> msg.type, to |-> msg.to, from |-> fromId]

\* A relay that lets the sender's own `from` stand: C18 rests on the room
\* writing `from` last.
webSocketMessageKeepsFrom(q, socket, msg) ==
    IF msg.json /\ msg.to # NoId /\ msg.to \in sessions /\ getPeerId(socket) # NoId
    THEN [q EXCEPT ![msg.to] =
             Append(@, Relayed(msg, IF msg.from # NoId THEN msg.from
                                    ELSE getPeerId(socket)))]
    ELSE q

\* Room.webSocketMessage on a frame of a client: JSON.parse throws on a
\* malformed frame and the catch drops it.
webSocketMessage(q, socket, msg) ==
    IF ~msg.json THEN q
    ELSE IF msg.to # NoId /\ msg.to \in sessions
         THEN LET fromId == getPeerId(socket) IN
              IF fromId # NoId
              THEN [q EXCEPT ![msg.to] = Append(@, Relayed(msg, fromId))]
              ELSE q
         ELSE q

\* The connections clients open to the room, and the frames they send: with
\* or without `to`, to a session or to an id the room does not know, with a
\* `from` of their own making or none, or not JSON at all.
RoomClients == {FirstId(e) : e \in Endpoints}
UnknownId == Id(Attacker, MaxReconnects)
ClientFrames ==
    {[json |-> TRUE, type |-> "offer", to |-> to, from |-> from] :
        to \in RoomClients \cup {NoId, UnknownId}, from \in {NoId, FirstId("A")}}
    \cup {[json |-> FALSE, type |-> "offer", to |-> FirstId("A"), from |-> NoId]}

\* Room.fetch on an upgrade request: the server socket is accepted under a
\* fresh id.
RoomConnect(s) ==
    /\ sock[s].state = "none"
    /\ sock' = [sock EXCEPT ![s].state = "open"]
    /\ sessions' = sessions \cup {s}
    /\ sigq' = RoomFetch(sigq, s)
    /\ UNCHANGED <<relayLog, status, encryptionKey, ws, pollTimer, announceTimer, rt,
                   inviteVars, clockVars, gateVars, peerVars, genVars, httpVars, mgrVars>>

\* webSocketMessage runs on a frame that came in on an open socket.
RoomSend(s, msg) ==
    /\ sock[s].state = "open"
    /\ relayLog.n < MaxFrames
    /\ sigq' = webSocketMessage(sigq, s, msg)
    /\ relayLog' = [n |-> relayLog.n + 1, sender |-> s, msg |-> msg]
    /\ UNCHANGED <<sock, sessions, status, encryptionKey, ws, pollTimer,
                   announceTimer, rt, inviteVars, clockVars, gateVars, peerVars,
                   genVars, httpVars, mgrVars>>

\* The connection of an open socket ends: the runtime will call
\* webSocketError, webSocketClose, or both.
RoomSockBreak(s, cbs) ==
    /\ sock[s].state = "open"
    /\ cbs # {}
    /\ sock' = [sock EXCEPT ![s].state = "broken", ![s].due = cbs]
    /\ UNCHANGED <<relayLog, sessVars, inviteVars, clockVars, gateVars, peerVars,
                   genVars, httpVars, mgrVars>>

\* Room.webSocketClose, called by the runtime or by webSocketError.
RoomCallback(s, cb) ==
    /\ cb \in sock[s].due
    /\ sock' = [sock EXCEPT ![s].due = @ \ {cb}, ![s].fired = @ + 1,
                            ![s].state = IF sock[s].due = {cb} THEN "closed" ELSE @]
    /\ sessions' = sessions \ {s}
    /\ sigq' = RoomClose(sigq, s)
    /\ UNCHANGED <<relayLog, status, encryptionKey, ws, pollTimer, announceTimer, rt,
                   inviteVars, clockVars, gateVars, peerVars, genVars, httpVars, mgrVars>>

(***************************************************************************)
(* SyncManager: start, stop, the relay socket and its signaling frames.     *)
(***************************************************************************)
IdleRt == [derive |-> 0, announce |-> 0, wsOpen |-> {}, wsCloseEvt |-> {},
           reconnect |-> 0, nextSock |-> 0, polls |-> {}, announces |-> {},
           nextTimer |-> 1, startCalls |-> 0, stopped |-> FALSE,
           announced |-> "none"]

\* start() has run to its end: keys derived, socket open, both intervals set.
SyncingRt(m) == [IdleRt EXCEPT !.wsOpen = {FirstId(m)}, !.nextSock = 1,
                               !.polls = {1}, !.announces = {2}, !.nextTimer = 3,
                               !.startCalls = 1, !.announced = "accepted"]

InitSessIdle ==
    /\ status = [m \in Mgr |-> "disconnected"]
    /\ encryptionKey = [m \in Mgr |-> NoKey]
    /\ ws = [m \in Mgr |-> NoId]
    /\ pollTimer = [m \in Mgr |-> 0]
    /\ announceTimer = [m \in Mgr |-> 0]
    /\ rt = [m \in Mgr |-> IdleRt]
    /\ sessions = {}
    /\ sigq = [p \in Ids |-> <<>>]

\* The managers in S are 'syncing' and registered at the relay (with the
\* sessions `more` of other clients); the others have not been started.
InitSessSyncing(S, more) ==
    /\ status = [m \in Mgr |-> IF m \in S THEN "syncing" ELSE "disconnected"]
    /\ encryptionKey = [m \in Mgr |-> IF m \in S
                                      THEN deriveKeys(password[m], RoomId).encryptionKey
                                      ELSE NoKey]
    /\ ws = [m \in Mgr |-> IF m \in S THEN FirstId(m) ELSE NoId]
    /\ pollTimer = [m \in Mgr |-> IF m \in S THEN 1 ELSE 0]
    /\ announceTimer = [m \in Mgr |-> IF m \in S THEN 2 ELSE 0]
    /\ rt = [m \in Mgr |-> IF m \in S THEN SyncingRt(m) ELSE IdleRt]
    /\ sessions = {FirstId(m) : m \in S} \cup more
    /\ sigq = [p \in Ids |-> <<>>]

\* sendSignaling: only through this.ws, and only while it is open.
sendSignaling(q, m, to, t) ==
    IF ws[m] # NoId /\ ws[m] \in rt[m].wsOpen THEN RoomMessage(q, ws[m], to, t) ELSE q

SendOffers(q, m, ps) ==
    [x \in DOMAIN q |-> IF x \in ps THEN sendSignaling(q, m, x, "offer")[x] ELSE q[x]]

\* An initiateConnection without its first test: C26 rests on the test.
NeedsConnectionUnchecked(m, ps) == ps

\* initiateConnection: if (this.peerConnections.has(peerId)) return
NeedsConnection(m, ps) == ps \ peerConnections[m]

\* initiateConnection for each peer id of ps: a peer that has an entry in
\* peerConnections is skipped; for the others a connection and its data
\* channel are created and kept, and an offer is sent through the relay.
initiateConnections(m, ps, q) ==
    LET fresh == NeedsConnection(m, ps) IN
    /\ peerConnections' = [peerConnections EXCEPT ![m] = @ \cup fresh]
    /\ dataChannels' = [dataChannels EXCEPT ![m] = @ \cup fresh]
    /\ dcState' = [dcState EXCEPT ![m] =
                     [p \in Ids |-> IF p \in fresh /\ @[p] = "none" THEN "negotiating" ELSE @[p]]]
    /\ sigq' = SendOffers(q, m, fresh)
    /\ hist' = [hist EXCEPT ![m].secondPc = @ \cup (fresh \cap peerConnections[m])]
    /\ UNCHANGED authenticatedPeers

\* handleOffer: a connection is created for a peer that has none; the answer
\* goes back through the relay.
handleOffer(m, from, q) ==
    LET found == from \in peerConnections[m] IN
    /\ peerConnections' = [peerConnections EXCEPT ![m] =
                              IF found THEN @ ELSE @ \cup {from}]
    /\ sigq' = sendSignaling(q, m, from, "answer")
    /\ hist' = [hist EXCEPT ![m].reusedPc = IF found THEN @ \cup {from} ELSE @]
    /\ UNCHANGED <<dataChannels, dcState, authenticatedPeers>>

\* ws.onmessage -> handleSignalingMessage, on a socket that is open.
SigRecv(m, s) ==
    LET f == Head(sigq[s])
        q == [sigq EXCEPT ![s] = Tail(@)]
    IN
    /\ Ep(s) = m
    /\ s \in rt[m].wsOpen
    /\ sigq[s] # <<>>
    /\ CASE f.type = "peers" -> initiateConnections(m, f.peers, q)
         [] f.type = "peer-joined" -> initiateConnections(m, {f.peerId}, q)
         [] f.type = "peer-left" ->
              /\ handlePeerDisconnected(m, f.peerId)
              /\ hist' = [hist EXCEPT ![m] =
                            [PeerDisconnectedNoted(@, m, f.peerId) EXCEPT
                                !.evicted = @ \cup ({f.peerId} \cap authenticatedPeers[m])]]
              /\ sigq' = q
              /\ UNCHANGED dcState
         [] f.type = "offer" -> handleOffer(m, f.from, q)
         [] OTHER ->
              /\ sigq' = q
              /\ UNCHANGED <<peerConnections, dataChannels, dcState,
                             authenticatedPeers, hist>>
    /\ UNCHANGED <<password, authKey, doc, observers, pending, closedPcs, closeEvt,
                   net, atk, serverVars, status, encryptionKey, ws, pollTimer,
                   announceTimer, rt, sessions>>

\* connectWebSocket: a new socket becomes this.ws; the relay registers it
\* under the next relay id of this endpoint.
NewSocket(m) == Id(m, rt[m].nextSock)

connectWebSocket(m, r) ==
    /\ ws' = [ws EXCEPT ![m] = NewSocket(m)]
    /\ rt' = [rt EXCEPT ![m] = [r EXCEPT !.wsOpen = @ \cup {NewSocket(m)},
                                         !.nextSock = @ + 1]]
    /\ sessions' = sessions \cup {NewSocket(m)}
    /\ sigq' = RoomFetch(sigq, NewSocket(m))

\* start() up to await deriveKeys; a call in another status returns at once.
StartGuard(m) == status[m] = "disconnected"

Start(m) ==
    /\ rt[m].startCalls < MaxStarts
    /\ StartGuard(m)
    /\ status' = [status EXCEPT ![m] = "connecting"]
    /\ rt' = [rt EXCEPT ![m].derive = @ + 1, ![m].startCalls = @ + 1,
                        ![m].stopped = FALSE]
    /\ UNCHANGED <<encryptionKey, ws, pollTimer, announceTimer, sessions, sigq,
                   mgrVars, serverVars>>

\* start() from await deriveKeys to await this.announce(): the keys are kept,
\* connectWebSocket and startPolling run.
DeriveDone(m) ==
    /\ rt[m].derive > 0
    /\ rt[m].nextSock <= MaxReconnects
    /\ authKey' = [authKey EXCEPT ![m] = deriveKeys(password[m], RoomId).authKey]
    /\ encryptionKey' = [encryptionKey EXCEPT ![m] =
                            deriveKeys(password[m], RoomId).encryptionKey]
    /\ connectWebSocket(m, [rt[m] EXCEPT !.derive = @ - 1, !.announce = @ + 1,
                                         !.polls = @ \cup {rt[m].nextTimer},
                                         !.nextTimer = @ + 1])
    /\ pollTimer' = [pollTimer EXCEPT ![m] = rt[m].nextTimer]
    /\ UNCHANGED <<status, announceTimer, password, peerConnections, dataChannels,
                   authenticatedPeers, doc, observers, pending, dcState, closedPcs,
                   closeEvt, net, atk, hist, serverVars>>

\* start(): deriveKeys rejects; the catch sets 'error' and rethrows.
DeriveFail(m) ==
    /\ rt[m].derive > 0
    /\ rt' = [rt EXCEPT ![m].derive = @ - 1]
    /\ status' = [status EXCEPT ![m] = "error"]
    /\ UNCHANGED <<encryptionKey, ws, pollTimer, announceTimer, sessions, sigq,
                   mgrVars, serverVars>>

\* start() from await this.announce() to the end: client.announce resolved
\* (accepted) or rejected; announce() catches and logs the rejection, so
\* start() goes on either way: startAnnouncing, then 'syncing'.
AnnounceDone(m, accepted) ==
    /\ rt[m].announce > 0
    /\ rt' = [rt EXCEPT ![m].announce = @ - 1,
                        ![m].announced = IF accepted THEN "accepted" ELSE "failed",
                        ![m].announces = @ \cup {rt[m].nextTimer},
                        ![m].nextTimer = @ + 1]
    /\ announceTimer' = [announceTimer EXCEPT ![m] = rt[m].nextTimer]
    /\ status' = [status EXCEPT ![m] = "syncing"]
    /\ UNCHANGED <<encryptionKey, ws, pollTimer, sessions, sigq, mgrVars, serverVars>>

\* stop(): both intervals cleared, this.ws closed, every peer connection
\* closed and forgotten, 'disconnected'. The keys stay.
Stop(m) ==
    /\ pollTimer' = [pollTimer EXCEPT ![m] = 0]
    /\ announceTimer' = [announceTimer EXCEPT ![m] = 0]
    /\ rt' = [rt EXCEPT ![m].polls = @ \ {pollTimer[m]},
                        ![m].announces = @ \ {announceTimer[m]},
                        ![m].wsOpen = @ \ {ws[m]},
                        ![m].wsCloseEvt = @ \cup (rt[m].wsOpen \cap {ws[m]}),
                        ![m].stopped = TRUE]
    /\ ws' = [ws EXCEPT ![m] = NoId]
    /\ sessions' = sessions \ {ws[m]}
    /\ sigq' = IF ws[m] \in rt[m].wsOpen THEN RoomClose(sigq, ws[m]) ELSE sigq
    /\ PcCloseSet(m, peerConnections[m])
    /\ peerConnections' = [peerConnections EXCEPT ![m] = {}]
    /\ dataChannels' = [dataChannels EXCEPT ![m] = {}]
    /\ authenticatedPeers' = [authenticatedPeers EXCEPT ![m] = {}]
    /\ status' = [status EXCEPT ![m] = "disconnected"]
    /\ UNCHANGED <<password, authKey, encryptionKey, doc, observers, pending, net,
                   atk, hist, serverVars>>

\* The relay connection of a socket breaks: the socket is closed for the
\* manager (its 'close' event is due) and the room runs webSocketClose.
RelayDrop(m, s) ==
    /\ s \in rt[m].wsOpen
    /\ rt' = [rt EXCEPT ![m].wsOpen = @ \ {s}, ![m].wsCloseEvt = @ \cup {s}]
    /\ sessions' = sessions \ {s}
    /\ sigq' = RoomClose(sigq, s)
    /\ UNCHANGED <<status, encryptionKey, ws, pollTimer, announceTimer, mgrVars,
                   serverVars>>

\* ws.onclose: setTimeout(..., 5000)
WsOnClose(m, s) ==
    /\ s \in rt[m].wsCloseEvt
    /\ rt' = [rt EXCEPT ![m].wsCloseEvt = @ \ {s}, ![m].reconnect = @ + 1]
    /\ UNCHANGED <<status, encryptionKey, ws, pollTimer, announceTimer, sessions,
                   sigq, mgrVars, serverVars>>

\* The timeout set by ws.onclose fires: connectWebSocket if 'syncing'.
ReconnectFire(m) ==
    /\ rt[m].reconnect > 0
    /\ status[m] = "syncing" => rt[m].nextSock <= MaxReconnects
    /\ IF status[m] = "syncing"
       THEN connectWebSocket(m, [rt[m] EXCEPT !.reconnect = @ - 1])
       ELSE /\ rt' = [rt EXCEPT ![m].reconnect = @ - 1]
            /\ UNCHANGED <<ws, sessions, sigq>>
    /\ UNCHANGED <<status, encryptionKey, pollTimer, announceTimer, mgrVars, serverVars>>

(***************************************************************************)
(* Two managers of one room, both 'syncing', whose peer connection has been *)
(* negotiated through the relay: each holds the other's RTCPeerConnection   *)
(* and data channel, not yet open.                                          *)
(***************************************************************************)
InitSync ==
    /\ InitServer
    /\ password \in {pw \in [Mgr -> Passwords] : pw["A"] = "correct horse"}
    /\ authKey = [m \in Mgr |-> deriveKeys(password[m], RoomId).authKey]
    /\ peerConnections = [m \in Mgr |-> {FirstId(x) : x \in Mgr \ {m}}]
    /\ dataChannels = [m \in Mgr |-> {FirstId(x) : x \in Mgr \ {m}}]
    /\ authenticatedPeers = [m \in Mgr |-> {}]
    /\ doc = [m \in Mgr |-> {}]
    /\ observers = [m \in Mgr |-> [p \in Ids |-> 0]]
    /\ pending = [m \in Mgr |-> <<>>]
    /\ dcState = [m \in Mgr |-> [p \in Ids |->
                     IF Ep(p) \in Mgr \ {m} /\ p = FirstId(Ep(p))
                     THEN "connecting" ELSE "none"]]
    /\ closedPcs = [m \in Mgr |-> {}]
    /\ closeEvt = [m \in Mgr |-> {}]
    /\ net = [pr \in Endpoints \X Endpoints |-> <<>>]
    /\ hist = [m \in Mgr |-> NoHist]
    /\ atk = NoAttacker
    /\ InitSessSyncing(Mgr, {})

NextSync ==
    \/ \E m \in Mgr, p \in Ids : DcOpen(m, p)
    \/ \E m \in Mgr, e \in Mgr : Recv(m, e)
    \/ \E m \in Mgr, i \in 1..2 : SignDone(m, i)
    \/ \E m \in Mgr, i \in 1..2 : VerifyDone(m, i)
    \/ \E m \in Mgr, p \in Ids : DcCloseEvent(m, p)
    \/ \E m \in Mgr : LocalWrite(m)

SpecSync == InitSync /\ [][NextSync]_vars

\* Events that are due are dispatched and settled promises are resumed: the
\* event loop starves no task.
FairSync ==
    /\ \A m \in Mgr, p \in Ids : WF_vars(DcOpen(m, p))
    /\ \A m \in Mgr, e \in Mgr : WF_vars(Recv(m, e))
    /\ \A m \in Mgr, i \in 1..2 : WF_vars(SignDone(m, i))
    /\ \A m \in Mgr, i \in 1..2 : WF_vars(VerifyDone(m, i))

SpecSyncFair == SpecSync /\ FairSync

(***************************************************************************)
(* A remote peer that follows no protocol: it holds a key of its own (from  *)
(* the right password or a wrong one), sees every frame the manager sends   *)
(* it, and sends any frame it can build from those.                         *)
(***************************************************************************)
AtkId == FirstId(Attacker)
AtkItem == <<Attacker, 1>>

AtkSignatures ==
    {signChallenge(c, atk.key) : c \in Challenges}
    \cup {f.response : f \in {g \in atk.seen : g.type = "auth-response"}}

AtkFrames ==
    {AuthChallenge(c) : c \in Challenges}
    \cup {AuthResponse(c, r) : c \in Challenges, r \in AtkSignatures}
    \cup {AuthSuccess, YjsSyncRequest, YjsUpdate({AtkItem}), YjsSyncResponse({AtkItem})}

AtkSend(m, f) ==
    /\ atk.sent < MaxAttackerFrames
    /\ dcState[m][AtkId] \in {"connecting", "open"}
    /\ f \in AtkFrames
    /\ net' = [net EXCEPT ![<<Attacker, m>>] = Append(@, f)]
    /\ atk' = [atk EXCEPT !.sent = @ + 1]
    /\ UNCHANGED <<password, authKey, peerConnections, dataChannels,
                   authenticatedPeers, doc, observers, pending, dcState,
                   closedPcs, closeEvt, hist, serverVars, sessVars>>

AtkSee(m) ==
    /\ net[<<m, Attacker>>] # <<>>
    /\ atk' = [atk EXCEPT !.seen = @ \cup {Head(net[<<m, Attacker>>])}]
    /\ net' = [net EXCEPT ![<<m, Attacker>>] = Tail(@)]
    /\ UNCHANGED <<password, authKey, peerConnections, dataChannels,
                   authenticatedPeers, doc, observers, pending, dcState,
                   closedPcs, closeEvt, hist, serverVars, sessVars>>

\* The remote peer closes its end: the manager's channel gets a 'close' event.
AtkClose(m) ==
    /\ dcState[m][AtkId] = "open"
    /\ AtkId \notin closeEvt[m]
    /\ closeEvt' = [closeEvt EXCEPT ![m] = @ \cup {AtkId}]
    /\ UNCHANGED <<password, authKey, peerConnections, dataChannels,
                   authenticatedPeers, doc, observers, pending, dcState,
                   closedPcs, net, hist, atk, serverVars, sessVars>>

\* Manager A 'syncing', its peer connection to the remote peer negotiated.
InitAuth ==
    /\ InitServer
    /\ password = [m \in Mgr |-> "correct horse"]
    /\ authKey = [m \in Mgr |-> IF m = "A" THEN deriveKeys(password[m], RoomId).authKey
                                ELSE NoKey]
    /\ peerConnections = [m \in Mgr |-> IF m = "A" THEN {AtkId} ELSE {}]
    /\ dataChannels = [m \in Mgr |-> IF m = "A" THEN {AtkId} ELSE {}]
    /\ authenticatedPeers = [m \in Mgr |-> {}]
    /\ doc = [m \in Mgr |-> {}]
    /\ observers = [m \in Mgr |-> [p \in Ids |-> 0]]
    /\ pending = [m \in Mgr |-> <<>>]
    /\ dcState = [m \in Mgr |-> [p \in Ids |->
                     IF m = "A" /\ p = AtkId THEN "connecting" ELSE "none"]]
    /\ closedPcs = [m \in Mgr |-> {}]
    /\ closeEvt = [m \in Mgr |-> {}]
    /\ net = [pr \in Endpoints \X Endpoints |-> <<>>]
    /\ hist = [m \in Mgr |-> NoHist]
    /\ \E pw \in Passwords :
          atk = [key |-> deriveKeys(pw, RoomId).authKey, sent |-> 0, seen |-> {}]
    /\ InitSessSyncing({"A"}, {AtkId})

NextAuth ==
    \/ DcOpen("A", AtkId)
    \/ Recv("A", Attacker)
    \/ \E i \in 1..MaxAttackerFrames : SignDone("A", i)
    \/ \E i \in 1..MaxAttackerFrames : VerifyDone("A", i)
    \/ DcCloseEvent("A", AtkId)
    \/ LocalWrite("A")
    \/ \E f \in AtkFrames : AtkSend("A", f)
    \/ AtkSee("A")
    \/ AtkClose("A")

SpecAuth == InitAuth /\ [][NextAuth]_vars

(***************************************************************************)
(* SpecRelay: the two managers of SpecSync with the same password, from     *)
(* the state SpecSync reaches when the handshake and the first state        *)
(* exchange are over (AfterHandshake). The relay connection of either may   *)
(* break; it is re-opened by the reconnect timeout.                         *)
(***************************************************************************)
AfterHandshake ==
    /\ password = [m \in Mgr |-> "correct horse"]
    /\ authKey = [m \in Mgr |-> deriveKeys(password[m], RoomId).authKey]
    /\ peerConnections = [m \in Mgr |-> {FirstId(x) : x \in Mgr \ {m}}]
    /\ dataChannels = [m \in Mgr |-> {FirstId(x) : x \in Mgr \ {m}}]
    /\ authenticatedPeers = [m \in Mgr |-> {FirstId(x) : x \in Mgr \ {m}}]
    /\ doc = [m \in Mgr |-> {}]
    /\ observers = [m \in Mgr |-> [p \in Ids |->
                        IF Ep(p) \in Mgr \ {m} /\ p = FirstId(Ep(p)) THEN 2 ELSE 0]]
    /\ pending = [m \in Mgr |-> <<>>]
    /\ dcState = [m \in Mgr |-> [p \in Ids |->
                     IF Ep(p) \in Mgr \ {m} /\ p = FirstId(Ep(p))
                     THEN "open" ELSE "none"]]
    /\ closedPcs = [m \in Mgr |-> {}]
    /\ closeEvt = [m \in Mgr |-> {}]
    /\ net = [pr \in Endpoints \X Endpoints |-> <<>>]
    /\ hist = [m \in Mgr |->
                 LET peers == {FirstId(x) : x \in Mgr \ {m}} IN
                 [NoHist EXCEPT !.sentCh = [p \in Ids |-> IF p \in peers THEN {"c1"} ELSE {}],
                                !.acceptedCh = [p \in Ids |-> IF p \in peers THEN {"c1"} ELSE {}],
                                !.verifiedOk = peers, !.gotSuccess = peers,
                                !.yjsSent = peers, !.everAuth = peers]]
    /\ atk = NoAttacker

InitRelay == InitServer /\ AfterHandshake /\ InitSessSyncing(Mgr, {})

NextRelay ==
    \/ \E m \in Mgr, e \in Mgr : Recv(m, e)
    \/ \E m \in Mgr : LocalWrite(m)
    \/ \E m \in Mgr, s \in Ids : RelayDrop(m, s)
    \/ \E m \in Mgr, s \in Ids : WsOnClose(m, s)
    \/ \E m \in Mgr : ReconnectFire(m)
    \/ \E m \in Mgr, s \in Ids : SigRecv(m, s)

SpecRelay == InitRelay /\ [][NextRelay]_vars

(***************************************************************************)
(* SpecLife: manager A is started and stopped by its application while      *)
(* manager B of the same room is 'syncing' and registered at the relay.     *)
(***************************************************************************)
InitLife ==
    /\ InitServer
    /\ password = [m \in Mgr |-> "correct horse"]
    /\ authKey = [m \in Mgr |-> IF m = "B" THEN deriveKeys(password[m], RoomId).authKey
                                ELSE NoKey]
    /\ peerConnections = [m \in Mgr |-> {}]
    /\ dataChannels = [m \in Mgr |-> {}]
    /\ authenticatedPeers = [m \in Mgr |-> {}]
    /\ doc = [m \in Mgr |-> {}]
    /\ observers = [m \in Mgr |-> [p \in Ids |-> 0]]
    /\ pending = [m \in Mgr |-> <<>>]
    /\ dcState = [m \in Mgr |-> [p \in Ids |-> "none"]]
    /\ closedPcs = [m \in Mgr |-> {}]
    /\ closeEvt = [m \in Mgr |-> {}]
    /\ net = [pr \in Endpoints \X Endpoints |-> <<>>]
    /\ hist = [m \in Mgr |-> NoHist]
    /\ atk = NoAttacker
    /\ InitSessSyncing({"B"}, {})

NextLife ==
    \/ Start("A")
    \/ DeriveDone("A")
    \/ DeriveFail("A")
    \/ \E accepted \in BOOLEAN : AnnounceDone("A", accepted)
    \/ Stop("A")
    \/ \E s \in Ids : RelayDrop("A", s)
    \/ \E s \in Ids : WsOnClose("A", s)
    \/ ReconnectFire("A")
    \/ \E m \in Mgr, s \in Ids : SigRecv(m, s)
    \/ \E m \in Mgr, p \in Ids : DcCloseEvent(m, p)

SpecLife == InitLife /\ [][NextLife]_vars

(***************************************************************************)
(* SpecMesh: manager A starts while manager B of the same room is           *)
(* 'syncing'; the relay tells each of the other, both initiate, and the     *)
(* relay connection of either may break and be re-opened.                   *)
(***************************************************************************)
NextMesh ==
    \/ Start("A")
    \/ DeriveDone("A")
    \/ \E accepted \in BOOLEAN : AnnounceDone("A", accepted)
    \/ \E m \in Mgr, s \in Ids : RelayDrop(m, s)
    \/ \E m \in Mgr, s \in Ids : WsOnClose(m, s)
    \/ \E m \in Mgr : ReconnectFire(m)
    \/ \E m \in Mgr, s \in Ids : SigRecv(m, s)

SpecMesh == InitLife /\ [][NextMesh]_vars

(***************************************************************************)
(* Specifications.                                                          *)
(***************************************************************************)
InitJoin == InitServer /\ InitMgrIdle /\ InitSessIdle

NextJoin ==
    \/ \E room \in Rooms : handleCreateInvite(room)
    \/ \E code \in Codes : ExpireInvite(code)
    \/ \E r \in ReqIds, code \in Codes : JoinArrive(r, code)
    \/ \E r \in ReqIds : JoinGet(r)
    \/ \E r \in ReqIds : JoinDelete(r)

SpecJoin == InitJoin /\ [][NextJoin]_vars

(***************************************************************************)
(* SpecJoinSeq: the invite handlers with the clock; redemptions are handled *)
(* one after another.                                                       *)
(***************************************************************************)
\* Request r is the next to be handled: those before it are done, no other
\* has arrived.
NextInLine(r) ==
    \A q \in ReqIds \ {r} : reqs[q].pc = IF q < r THEN "done" ELSE "idle"

NextJoinSeq ==
    \/ \E room \in Rooms : handleCreateInvite(room)
    \/ \E r \in ReqIds, code \in Codes : NextInLine(r) /\ JoinArrive(r, code)
    \/ \E r \in ReqIds : JoinGet(r)
    \/ \E r \in ReqIds : JoinDelete(r)
    \/ Advance(SHARE_CODE_TTL \div 2)

SpecJoinSeq == InitJoin /\ [][NextJoinSeq]_vars

(***************************************************************************)
(* SpecGate: requests of one client at the rate-limit gate, one after       *)
(* another or overlapping, after the client has been admitted InitCounts    *)
(* times at clock 0.                                                        *)
(***************************************************************************)
InitGateRun ==
    /\ InitInvites /\ InitGateLoaded /\ InitPeers /\ InitRoom /\ InitGen /\ InitHttp
    /\ InitMgrIdle /\ InitSessIdle

\* Requests arrive in the order of their ids.
ArrivesNext(r) ==
    \A q \in ReqIds \ {r} : (q < r) <=> (gate[q].pc # "idle")

\* The runs span two rate-limit windows.
NextGate ==
    \/ \E r \in ReqIds, ip \in ClientIPs : ArrivesNext(r) /\ GateArrive(r, ip)
    \/ \E r \in ReqIds : GateGet(r)
    \/ \E r \in ReqIds : GatePut(r)
    \/ now < 2 * RATE_LIMIT_WINDOW /\ Advance(ClockStep)

SpecGate == InitGateRun /\ [][NextGate]_vars

(***************************************************************************)
(* SpecPeers: presence records announced and listed while the clock runs.   *)
(***************************************************************************)
\* The reply of handleGetPeers has gone out to the client.
PeersReplied ==
    /\ peerList # NoList
    /\ peerList' = NoList
    /\ UNCHANGED <<peerKV, annPending, inviteVars, clockVars, gateVars, roomVars,
                   genVars, httpVars, mgrVars, sessVars>>

\* The peers that announce themselves: two in one room, one in the other.
Announcers == {<<"room1", "peer-a">>, <<"room1", "peer-b">>, <<"room2", "peer-a">>}

\* The runs span two presence TTLs; a reply goes out before the next step.
NextPeers ==
    \/ \E x \in Announcers : peerList = NoList /\ AnnounceArrive(x[1], x[2])
    \/ \E a \in annPending : peerList = NoList /\ AnnouncePut(a)
    \/ \E room \in Rooms : peerList = NoList /\ handleGetPeers(room)
    \/ peerList = NoList /\ now < 2 * PEER_TTL /\ Advance(PEER_TTL \div 2)
    \/ PeersReplied

SpecPeers == InitJoin /\ [][NextPeers]_vars

(***************************************************************************)
(* SpecRoom: the relay room alone, with clients that connect, send frames   *)
(* of any kind and lose their connection.  The Room instance stays in       *)
(* memory for the whole run, so its sessions map is never reset.            *)
(***************************************************************************)
NextRoom ==
    \/ \E s \in RoomClients : RoomConnect(s)
    \/ \E s \in RoomClients, msg \in ClientFrames : RoomSend(s, msg)
    \/ \E s \in RoomClients, cbs \in SUBSET Callbacks : RoomSockBreak(s, cbs)
    \/ \E s \in RoomClients, cb \in Callbacks : RoomCallback(s, cb)

SpecRoom == InitJoin /\ [][NextRoom]_vars

(***************************************************************************)
(* SpecGen: the two share-code generators run on the same bytes.            *)
(***************************************************************************)
NextGen == GenerateBoth \/ GenReturn

SpecGen == InitJoin /\ [][NextGen]_vars

(***************************************************************************)
(* SpecValidate: requests to /invite, /room/<id>/announce and               *)
(* /room/<id>/peers with well-formed and ill-formed room identifiers, each  *)
(* past the rate limiter.                                                   *)
(***************************************************************************)
NextValidate ==
    \/ \E roomId \in RoomInputs : PostInvite(roomId)
    \/ \E roomId \in RoomInputs, peerId \in PeerNames \cup {NoPeerId} :
          PostAnnounce(roomId, peerId)
    \/ \E a \in annPending : httpReply = NoHttpReply /\ AnnouncePut(a)
    \/ \E roomId \in RoomInputs : peerList = NoList /\ GetPeers(roomId)
    \/ PeersReplied
    \/ HttpReplied

SpecValidate == InitJoin /\ [][NextValidate]_vars

(***************************************************************************)
(* C1.                                                                      *)
(***************************************************************************)
\* Two requests are handled concurrently for a stored, unexpired code: both
\* were accepted while the record was present and before the other had read
\* it, and the record was neither rewritten nor expired since.
ConcurrentRedeem(r1, r2) ==
    /\ r1 # r2
    /\ reqs[r1].pc = "done" /\ reqs[r2].pc = "done"
    /\ reqs[r1].code = reqs[r2].code
    /\ reqs[r1].stored /\ reqs[r2].stored
    /\ r1 \in reqs[r2].rivals
    /\ reqs[r1].epoch = inviteEpoch[reqs[r1].code]
    /\ reqs[r2].epoch = inviteEpoch[reqs[r1].code]

\* C1: of any two concurrently handled redemptions of one stored, unexpired
\* share code, exactly one replies with the roomId and the other with 404.
C1_ExactlyOneRedeems ==
    \A r1, r2 \in ReqIds :
        ConcurrentRedeem(r1, r2) =>
            \/ reqs[r1].reply.status = 200 /\ reqs[r2].reply.status = 404
            \/ reqs[r1].reply.status = 404 /\ reqs[r2].reply.status = 200

(***************************************************************************)
(* Two managers, channel negotiated (SpecSync).                             *)
(***************************************************************************)
Other(m) == CHOOSE x \in Mgr : x # m
SamePassword == password["A"] = password["B"]

\* C4: a peer is in authenticatedPeers only when the manager has both verified
\* its auth-response and received its auth-success.
C4_AuthenticatedNeedsBothBits ==
    \A m \in Mgr : \A p \in authenticatedPeers[m] :
        p \in hist[m].verifiedOk /\ p \in hist[m].gotSuccess

C6_NoEcho == \A m \in Mgr : hist[m].echoed = {}

\* The channel between the two managers is open and authenticated at both
\* ends, nothing is in flight and no handler is suspended.
Quiescent ==
    /\ \A m \in Mgr :
          /\ dcState[m][FirstId(Other(m))] = "open"
          /\ FirstId(Other(m)) \in authenticatedPeers[m]
          /\ pending[m] = <<>>
    /\ \A pr \in Mgr \X Mgr : net[pr] = <<>>

\* C9: two managers with an open authenticated channel hold the same
\* document once all frames sent have been delivered.
C9_Convergence == Quiescent => doc["A"] = doc["B"]

C9_Witness ==
    /\ Quiescent
    /\ \A m \in Mgr : Items(m) \subseteq doc["A"] /\ Items(m) \subseteq doc["B"]

\* C10: with the same password and the channel staying open, each manager
\* verifies the other's response and has the other in authenticatedPeers in
\* the end.
C10_EventuallyAuthenticated ==
    SamePassword =>
        <>(\A m \in Mgr : /\ FirstId(Other(m)) \in hist[m].verifiedOk
                          /\ FirstId(Other(m)) \in authenticatedPeers[m])

C10_Witness ==
    /\ SamePassword
    /\ \A m \in Mgr : /\ FirstId(Other(m)) \in hist[m].verifiedOk
                      /\ FirstId(Other(m)) \in authenticatedPeers[m]


(***************************************************************************)
(* One manager and a remote peer that follows no protocol (SpecAuth).       *)
(***************************************************************************)
\* C2: the manager sends a yjs-* frame to a peer only after it has verified
\* an auth-response from that peer and received auth-success from it.
C2_NoYjsBeforeMutualAuth ==
    \A m \in Mgr : \A p \in hist[m].yjsSent :
        p \in hist[m].verifiedOk /\ p \in hist[m].gotSuccess

\* C3: an auth-response naming a challenge the manager did not send to that
\* peer is never accepted, and the transport is closed on it.
C3_UnsolicitedResponseRejected ==
    \A m \in Mgr : \A p \in Ids :
        /\ hist[m].acceptedCh[p] \subseteq hist[m].sentCh[p]
        /\ p \in hist[m].unsolicited => dcState[m][p] = "closed"


(***************************************************************************)
(* Start and stop (SpecLife).                                               *)
(***************************************************************************)
\* stop() was the application's last call and nothing it left behind is
\* still to run: no suspended start(), no 'close' event, no reconnect timeout.
SettledAfterStop(m) ==
    /\ rt[m].stopped
    /\ rt[m].derive = 0 /\ rt[m].announce = 0
    /\ rt[m].wsCloseEvt = {} /\ rt[m].reconnect = 0

\* C7: after stop(), once the pending asynchronous steps have run and until
\* start() is called again, the manager is 'disconnected' and holds no live
\* interval, no relay socket and no peer connection.
C7_StopReleasesEverything ==
    \A m \in Mgr :
        SettledAfterStop(m) =>
            /\ status[m] = "disconnected"
            /\ pollTimer[m] = 0 /\ rt[m].polls = {}
            /\ announceTimer[m] = 0 /\ rt[m].announces = {}
            /\ ws[m] = NoId /\ rt[m].wsOpen = {}
            /\ peerConnections[m] = {}

(***************************************************************************)
(* Relay faults (SpecRelay).                                                *)
(***************************************************************************)
\* The data channel under which m knows the endpoint of p is open at both ends.
ChannelLive(m, p) ==
    /\ p = FirstId(Ep(p)) /\ Ep(p) \in Mgr \ {m}
    /\ dcState[m][p] = "open" /\ p \notin closeEvt[m]
    /\ dcState[Ep(p)][FirstId(m)] = "open" /\ FirstId(m) \notin closeEvt[Ep(p)]

\* C8: a peer that was authenticated over a data channel which is still open
\* stays in authenticatedPeers, whatever happens to the relay connections.
C8_RelayFaultKeepsPeers ==
    \A m \in Mgr : \A p \in hist[m].everAuth :
        ChannelLive(m, p) => p \in authenticatedPeers[m]

(***************************************************************************)
(* Invites, one redemption at a time (SpecJoinSeq).                         *)
(***************************************************************************)
\* Request r1 redeemed the code and no invite was stored under it since.
RedeemedSince(r1, code) ==
    /\ reqs[r1].pc = "done" /\ reqs[r1].code = code
    /\ reqs[r1].reply.status = 200
    /\ reqs[r1].doneEpoch = inviteEpoch[code]

\* C11: once a redemption has returned the roomId, and until an invite is
\* stored under the code again, the record is absent and every redemption
\* answered then gets 404.
C11_RedeemedOnce ==
    [][/\ \A r1 \in ReqIds :
             RedeemedSince(r1, reqs[r1].code)' => inviteKV'[reqs'[r1].code] = NoRecord
       /\ \A r2 \in ReqIds :
             (/\ reqs[r2].pc # "done" /\ reqs'[r2].pc = "done"
              /\ \E r1 \in ReqIds : RedeemedSince(r1, reqs[r2].code))
             => reqs'[r2].reply = NotFound404]_vars

C11_Witness ==
    \E r1, r2 \in ReqIds :
        /\ RedeemedSince(r1, reqs[r1].code)
        /\ reqs[r2].pc = "done" /\ reqs[r2].code = reqs[r1].code
        /\ reqs[r2].doneEpoch = reqs[r1].doneEpoch
        /\ reqs[r2].reply = NotFound404

\* C12: a redemption that arrives more than SHARE_CODE_TTL seconds after the
\* latest put of its code is answered 404 and leaves no record, like the
\* redemption of a code that was never stored.
C12_ExpiredLikeNeverIssued ==
    \A r \in ReqIds :
        (/\ reqs[r].pc = "done"
         /\ \/ inviteExp[reqs[r].code] = 0
            \/ reqs[r].at > invitePut[reqs[r].code] + 300)
        => /\ reqs[r].reply = NotFound404
           /\ inviteKV[reqs[r].code] = NoRecord

C12_Witness ==
    \E r \in ReqIds :
        /\ reqs[r].pc = "done"
        /\ inviteExp[reqs[r].code] > 0
        /\ reqs[r].at > invitePut[reqs[r].code] + 300
        /\ reqs[r].reply = NotFound404

\* C13: an invite record that is stored is never replaced by another put: while
\* a code is outstanding, the only change to its record is its removal.
C13_NoOverwrite ==
    [][\A c \in Codes :
          (inviteKV[c] # NoRecord /\ inviteEpoch'[c] # inviteEpoch[c])
          => inviteKV'[c] = NoRecord]_vars

(***************************************************************************)
(* The rate-limit gate (SpecGate).                                          *)
(***************************************************************************)
\* C14: in no window of RATE_LIMIT_WINDOW seconds are more than
\* MAX_REQUESTS_PER_IP requests of one ip admitted.
C14_WindowBound ==
    \A ip \in ClientIPs : \A t \in Times :
        WindowCount(ip, t) <= MAX_REQUESTS_PER_IP

\* Every request so far was handled without the clock advancing meanwhile.
HandledPromptly ==
    \A q \in ReqIds :
        /\ gate[q].pc = "done" => gate[q].doneAt = gate[q].at
        /\ gate[q].pc \in {"get", "put"} => gate[q].at = now

\* C15: when the requests of an ip are handled one after another, a request
\* is rejected exactly when MAX_REQUESTS_PER_IP requests of the ip were
\* admitted in the RATE_LIMIT_WINDOW seconds before it.
C15_RollingWindow ==
    (~overlapG /\ HandledPromptly) =>
        \A r \in ReqIds :
            gate[r].pc = "done"
            => (gate[r].reply = RateLimited429 <=> gate[r].seen >= MAX_REQUESTS_PER_IP)

\* C16: the step that answers a request 429 changes no record of the store.
C16_RejectedChangesNothing ==
    [][\A r \in ReqIds :
          (gate[r].reply # RateLimited429 /\ gate'[r].reply = RateLimited429)
          => UNCHANGED <<inviteKV, inviteExp, rateKV, peerKV>>]_vars

C16_Witness ==
    \E r \in ReqIds : gate[r].pc = "done" /\ gate[r].reply = RateLimited429

(***************************************************************************)
(* Presence (SpecPeers).                                                    *)
(***************************************************************************)
\* C17: every record in a reply of handleGetPeers is stored under the room
\* asked for and was last seen less than PEER_TTL seconds before the reply.
C17_ListedAreFresh ==
    \A e \in peerList.peers :
        /\ e.key = PeerKey(peerList.room, e.peerId)
        /\ peerList.at - e.lastSeen < PEER_TTL * 1000

\* A reply that lists one peer of the room and leaves out another whose
\* record the store still holds.
C17_Witness ==
    /\ peerList.peers # {}
    /\ peerList.at = DateNow
    /\ \E k \in PeerKeys :
          /\ HasPrefix(k, PeerPrefix(peerList.room))
          /\ peerKV[k] # NoPeer
          /\ peerList.at - peerKV[k].lastSeen >= PEER_TTL * 1000

CountIn(q, f) == Cardinality({i \in 1..Len(q) : q[i] = f})

AuthTypes == {"auth-challenge", "auth-response", "auth-success"}

\* C21: when the manager handles a frame of another type than the three auth
\* frames from a peer that is not in authenticatedPeers, the peer's channel is
\* closed by the end of that step.
C21_UnexpectedFrameCloses ==
    [][\A m \in Mgr : \A e \in Endpoints \ {m} :
          (/\ net[<<e, m>>] # <<>>
           /\ net'[<<e, m>>] = Tail(net[<<e, m>>])
           /\ DcOpenFor(m, FirstId(e))
           /\ Head(net[<<e, m>>]).type \notin AuthTypes
           /\ FirstId(e) \notin authenticatedPeers[m])
          => dcState'[m][FirstId(e)] = "closed"]_vars

(***************************************************************************)
(* start() and its three setup steps (SpecLife).                            *)
(***************************************************************************)
\* C22: a step that makes the status 'syncing' finds the keys derived, the
\* relay socket of this.ws open, and the first announce accepted by the server.
C22_SyncingAfterAllThree ==
    [][\A m \in Mgr :
          (status[m] # "syncing" /\ status'[m] = "syncing")
          => /\ authKey'[m] # NoKey /\ encryptionKey'[m] # NoKey
             /\ ws'[m] \in rt'[m].wsOpen
             /\ rt'[m].announced = "accepted"]_vars

\* C24: a stop() leaves the manager without its derived keys.
C24_StopDropsKeys ==
    [][\A m \in Mgr :
          (~rt[m].stopped /\ rt'[m].stopped)
          => authKey'[m] = NoKey /\ encryptionKey'[m] = NoKey]_vars

\* C28: the open relay sockets, the live poll intervals and the live announce
\* intervals of a manager are at most the one its ws, pollTimer and
\* announceTimer fields name.
C28_OneSocketOneTimerEach ==
    \A m \in Mgr :
        /\ rt[m].wsOpen \subseteq {ws[m]}
        /\ rt[m].polls \subseteq {pollTimer[m]}
        /\ rt[m].announces \subseteq {announceTimer[m]}

(***************************************************************************)
(* Observers and membership of authenticatedPeers.                          *)
(***************************************************************************)
\* C27: startYjsSync runs at most once per peer transport: one document
\* observer is registered for the peer (so a local change gives one
\* yjs-update) and one yjs-sync-request is sent.
C27_OneObserverPerTransport ==
    \A m \in Mgr : \A p \in Ids : observers[m][p] <= 1

\* C29: every peer id in authenticatedPeers has an entry in dataChannels and
\* in peerConnections.
C29_AuthenticatedHaveTransport ==
    \A m \in Mgr :
        authenticatedPeers[m] \subseteq (dataChannels[m] \cap peerConnections[m])

\* C30: between two onPeerDisconnected(p), and before the first, a manager
\* calls onPeerConnected(p) at most once.
C30_ConnectedOncePerTransport ==
    \A m \in Mgr : \A p \in Ids : hist[m].conn[p] <= 1

(***************************************************************************)
(* Faults of one transport (SpecSync, managers with different passwords).   *)
(***************************************************************************)
\* C23: once a failed verification of p's auth-response has been dealt with
\* (no handler suspended, no 'close' event of p's channel due), p has no entry
\* in peerConnections, dataChannels and authenticatedPeers, onPeerDisconnected
\* was called for p, and the session is 'syncing' as before.
C23_FaultEvictsAndNotifies ==
    \A m \in Mgr : \A p \in hist[m].rejected :
        (pending[m] = <<>> /\ p \notin closeEvt[m])
        => /\ p \notin peerConnections[m]
           /\ p \notin dataChannels[m]
           /\ p \notin authenticatedPeers[m]
           /\ p \in hist[m].disc
           /\ status[m] = "syncing"

(***************************************************************************)
(* One RTCPeerConnection per peer id (SpecMesh).                            *)
(***************************************************************************)
\* C26: no manager creates an RTCPeerConnection for a peer id that has an
\* entry in peerConnections.
C26_NoSecondConnection == \A m \in Mgr : hist[m].secondPc = {}

\* Both managers initiated towards each other and each then got the other's
\* offer, which it handled on the connection it had.
C26_Witness ==
    /\ FirstId("B") \in hist["A"].reusedPc
    /\ FirstId("A") \in hist["B"].reusedPc
    /\ FirstId("B") \in peerConnections["A"]
    /\ FirstId("A") \in peerConnections["B"]

(***************************************************************************)
(* Ill-formed room identifiers (SpecValidate).                              *)
(***************************************************************************)
\* Groups of 8, 4, 4, 4 and 12 hex digits with hyphens between them.
WellFormedUUID(str) ==
    /\ Len(str) = 8 + 1 + 4 + 1 + 4 + 1 + 4 + 1 + 12
    /\ \A i \in 1..Len(str) :
          IF i \in {8 + 1, 8 + 1 + 4 + 1, 8 + 1 + 4 + 1 + 4 + 1,
                    8 + 1 + 4 + 1 + 4 + 1 + 4 + 1}
          THEN str[i] = "-"
          ELSE str[i] \in HexDigits

\* The invite and presence records did not change in this step.
RecordsUnchanged == UNCHANGED <<inviteKV, inviteExp, peerKV, annPending>>

\* C25: a request to /invite, announce or peers whose room identifier is not
\* a well-formed UUID, or an announce without peerId, is answered 400 and
\* changes no invite or presence record.
C25_IllFormedRoomRejected ==
    [][\A roomId \in RoomInputs :
          (/\ ~WellFormedUUID(roomId)
           /\ \/ PostInvite(roomId)
              \/ GetPeers(roomId)
              \/ \E peerId \in PeerNames \cup {NoPeerId} : PostAnnounce(roomId, peerId))
          => httpReply'.status = 400 /\ RecordsUnchanged]_vars

=============================================================================
